---------------------------- MODULE Spec2Model ----------------------------
(***************************************************************************)
(* A model of the kinematics engine of src/src/RobotKinematics.ts: the DH  *)
(* transform, forward kinematics, the grid-search inverse kinematics, the  *)
(* reachability predicate and the workspace radius.                        *)
(* A second specification, VisualizerSpec, models the page of              *)
(* src/src/visualizer.ts that loads a robot and feeds its joint angles to  *)
(* forward kinematics.                                                     *)
(*                                                                         *)
(* Numbers.  The program computes in IEEE doubles; the model computes in   *)
(* fixed point.  Lengths, cosines and matrix entries are integers in units *)
(* of 1/Scale (Scale = 10^4); angles are integers in units of 1/AngScale   *)
(* radians (AngScale = 10^6).  Math.cos, Math.sin, Math.acos, Math.atan2   *)
(* and Math.sqrt are computed numerically (series, bisection) to about     *)
(* 3/Scale.  NaN, which the program produces by 0/0, is a distinguished    *)
(* value that every comparison treats as IEEE does (always false).         *)
(***************************************************************************)
EXTENDS Integers, Sequences, FiniteSets, Bags, TLC

(***************************************************************************)
(* Fixed-point arithmetic                                                  *)
(***************************************************************************)
Scale == 100 * 100
AngScale == 1000 * 1000
AngPerLen == AngScale \div Scale

\* IEEE NaN (0/0); +-Infinity (x/0, x # 0) is always outside [-1, 1]
NaN == -(2^30)
Inf == 2^30

Abs(x) == IF x < 0 THEN -x ELSE x

\* round-to-nearest division, symmetric about 0
RDiv(n, d) ==
    IF n >= 0 THEN (2 * n + d) \div (2 * d) ELSE -((2 * (-n) + d) \div (2 * d))

\* product of two Scale-valued numbers
Mul(x, y) == RDiv(x * y, Scale)

\* Math.PI, in angle units
Pi == 3141593
HalfPi == Pi \div 2
TwoPi == 2 * Pi

RECURSIVE SqrtBisect(_, _, _)
SqrtBisect(n, lo, hi) ==
    IF hi - lo <= 1 THEN lo
    ELSE LET mid == (lo + hi) \div 2
         IN  IF mid * mid <= n THEN SqrtBisect(n, mid, hi)
             ELSE SqrtBisect(n, lo, mid)

\* Math.sqrt of a sum of products of Scale-valued numbers (n in 1/Scale^2),
\* as a Scale-valued number
Sqrt(n) == LET r == SqrtBisect(n, 0, 46341)
           IN  IF n - r * r > (r + 1) * (r + 1) - n THEN r + 1 ELSE r

\* sine and cosine series on [0, pi/4], argument and result Scale-valued
SinSeries(x) ==
    LET x2 == Mul(x, x)
        t3 == Scale - RDiv(x2, 42)
        t2 == Scale - RDiv(Mul(x2, t3), 20)
        t1 == Scale - RDiv(Mul(x2, t2), 6)
    IN  Mul(x, t1)

CosSeries(x) ==
    LET x2 == Mul(x, x)
        t3 == Scale - RDiv(x2, 30)
        t2 == Scale - RDiv(Mul(x2, t3), 12)
        t1 == Scale - RDiv(Mul(x2, t2), 2)
    IN  t1

\* sine on the first quadrant [0, pi/2], argument in angle units
SinQ(v) == IF 2 * v <= HalfPi THEN SinSeries(RDiv(v, AngPerLen))
           ELSE CosSeries(RDiv(HalfPi - v, AngPerLen))

\* Math.sin; the argument in angle units, the result Scale-valued
Sin(t) ==
    IF t = NaN THEN NaN
    ELSE LET u == t % TwoPi
         IN  IF u <= HalfPi THEN SinQ(u)
             ELSE IF u <= Pi THEN SinQ(Pi - u)
             ELSE IF u <= Pi + HalfPi THEN -SinQ(u - Pi)
             ELSE -SinQ(TwoPi - u)

\* Math.cos
Cos(t) ==
    IF t = NaN THEN NaN
    ELSE LET u == t % TwoPi
         IN  IF u <= HalfPi THEN SinQ(HalfPi - u)
             ELSE IF u <= Pi THEN -SinQ(u - HalfPi)
             ELSE IF u <= Pi + HalfPi THEN -SinQ(Pi + HalfPi - u)
             ELSE SinQ(u - Pi - HalfPi)

\* the angle in [lo, hi] (angle units, multiples of res) where Cos crosses c
RECURSIVE AcosBisect(_, _, _)
AcosBisect(c, lo, hi) ==
    IF hi - lo <= AngPerLen
    THEN IF Abs(Cos(lo) - c) <= Abs(Cos(hi) - c) THEN lo ELSE hi
    ELSE LET mid == (lo + hi) \div 2
         IN  IF Cos(mid) >= c THEN AcosBisect(c, mid, hi)
             ELSE AcosBisect(c, lo, mid)

\* Math.acos of a Scale-valued number; NaN outside [-1, 1]
Acos(c) ==
    IF c = NaN \/ c > Scale \/ c < -Scale THEN NaN
    ELSE IF c = Scale THEN 0
    ELSE IF c = -Scale THEN Pi
    ELSE AcosBisect(c, 0, Pi)

RECURSIVE AsinBisect(_, _, _)
AsinBisect(s, lo, hi) ==
    IF hi - lo <= AngPerLen
    THEN IF Abs(Sin(lo) - s) <= Abs(Sin(hi) - s) THEN lo ELSE hi
    ELSE LET mid == (lo + hi) \div 2
         IN  IF Sin(mid) <= s THEN AsinBisect(s, mid, hi)
             ELSE AsinBisect(s, lo, mid)

\* Math.atan2(y, x) for x >= 0 (the only use in the program), y and x
\* Scale-valued: the elevation of the vector (x, y), in [-pi/2, pi/2]
Elevation(y, x, h) ==
    IF y <= x THEN AsinBisect(RDiv(y * Scale, h), 0, HalfPi)
    ELSE AcosBisect(RDiv(x * Scale, h), 0, HalfPi)

Atan2(y, x) ==
    IF y = NaN \/ x = NaN THEN NaN
    ELSE IF y = 0 THEN 0
    ELSE IF x = 0 THEN (IF y > 0 THEN HalfPi ELSE -HalfPi)
    ELSE IF y > 0 THEN Elevation(y, x, Sqrt(x * x + y * y))
    ELSE -Elevation(-y, x, Sqrt(x * x + y * y))


(***************************************************************************)
(* NaN-propagating arithmetic on Scale-valued numbers and angles           *)
(***************************************************************************)
IsNaN(v) == v = NaN

NAdd(v, w) == IF v = NaN \/ w = NaN THEN NaN ELSE v + w

NSub(v, w) == IF v = NaN \/ w = NaN THEN NaN ELSE v - w

NMul(v, w) == IF v = NaN \/ w = NaN THEN NaN ELSE Mul(v, w)

\* the raw square of a difference, in 1/Scale^2 (NaN when a term is NaN)
NSqDiff(v, w) == IF v = NaN \/ w = NaN THEN NaN ELSE (v - w) * (v - w)

\* v < w as IEEE compares: false when either side is NaN
Less(v, w) == v # NaN /\ w # NaN /\ v < w

\* v / w of two Scale-valued numbers: 0/0 is NaN, x/0 is +-Infinity
FDiv(v, w) ==
    IF w = 0 THEN (IF v = 0 THEN NaN ELSE IF v > 0 THEN Inf ELSE -Inf)
    ELSE RDiv(v * Scale, w)

\* Math.abs(c) > 1
AbsGtOne(c) == c # NaN /\ Abs(c) > Scale

(***************************************************************************)
(* Configurations (RobotConfig, lines 18-29).  Lengths in 1/Scale, angles  *)
(* in 1/AngScale rad.                                                      *)
(***************************************************************************)
DH(theta, d, a, alpha) == [theta |-> theta, d |-> d, a |-> a, alpha |-> alpha]

PiLimit == [min |-> -Pi, max |-> Pi]

Origin == [x |-> 0, y |-> 0, z |-> 0]

MakeConfig(name, dh, types) ==
    [name |-> name, dhParameters |-> dh,
     jointLimits |-> [i \in 1..Len(dh) |-> PiLimit],
     jointTypes |-> types, baseOffset |-> Origin, toolOffset |-> Origin]

\* the unit-test robot: three links of 0.3, no offsets
TestRobot ==
    MakeConfig("Test Robot",
               << DH(0, 0, 3000, -HalfPi), DH(0, 0, 3000, -HalfPi), DH(0, 0, 3000, 0) >>,
               << "revolute", "revolute", "revolute" >>)

\* the 3-DOF robot of the example: base offset d1 = 0.325
ThreeDOFRobot ==
    MakeConfig("3-DOF Test Robot",
               << DH(0, 3250, 2250, -HalfPi), DH(0, 0, 7350, 0), DH(0, 0, 1750, 0) >>,
               << "revolute", "revolute", "revolute" >>)

\* the Staubli RX90B of the example: six joints
StaubliRX90B ==
    MakeConfig("Staubli RX90B",
               << DH(0, 3250, 2250, -HalfPi), DH(0, 0, 7350, 0), DH(0, 0, 1750, 0),
                  DH(0, 7750, 0, -HalfPi), DH(0, 0, 0, HalfPi), DH(0, 1000, 0, 0) >>,
               << "revolute", "revolute", "revolute", "revolute", "revolute", "revolute" >>)

\* the unit-test robot with a prismatic elbow (JointType, line 3)
PrismaticRobot ==
    MakeConfig("Prismatic Robot",
               << DH(0, 0, 3000, -HalfPi), DH(0, 0, 3000, -HalfPi), DH(0, 0, 3000, 0) >>,
               << "revolute", "revolute", "prismatic" >>)

\* a two-joint arm, and the empty chain
TwoJointRobot ==
    MakeConfig("Two Joint Robot",
               << DH(0, 1000, 2000, 0), DH(0, 0, 3000, HalfPi) >>,
               << "revolute", "revolute" >>)

EmptyRobot == MakeConfig("Empty Robot", << >>, << >>)

\* the arm of the first unit tests: d1 = 0.1, a = 0.2, 0.3, 0.2
SimpleArm ==
    MakeConfig("Simple Arm",
               << DH(0, 1000, 2000, 0), DH(0, 0, 3000, HalfPi), DH(0, 0, 2000, 0) >>,
               << "revolute", "revolute", "revolute" >>)

\* a two-joint arm whose joints have a zero position of -pi/4
OffsetRobot ==
    MakeConfig("Offset Robot",
               << DH(-(Pi \div 4), 500, 2000, HalfPi), DH(-(Pi \div 4), 0, 1000, 0) >>,
               << "revolute", "prismatic" >>)

\* a configuration whose three lists differ in length: the type RobotConfig
\* allows it and nothing validates it
UnevenRobot ==
    [name |-> "Uneven Robot",
     dhParameters |-> << DH(0, 0, 3000, 0) >>,
     jointLimits |-> << >>,
     jointTypes |-> << "revolute", "revolute" >>,
     baseOffset |-> Origin, toolOffset |-> Origin]

Configs == { TestRobot, ThreeDOFRobot, StaubliRX90B, PrismaticRobot,
             TwoJointRobot, EmptyRobot, SimpleArm, OffsetRobot, UnevenRobot }

(***************************************************************************)
(* toJSON (lines 60-62) and fromJSON (lines 52-55).  A JSON text is the    *)
(* list of its members in the order JSON.stringify writes them; a number   *)
(* that is NaN or infinite is written as null.                             *)
(***************************************************************************)
JsonNumber(v) == IF v \in { NaN, Inf, -Inf } THEN "null" ELSE v

JsonPoint(p) == << << "x", JsonNumber(p.x) >>, << "y", JsonNumber(p.y) >>,
                   << "z", JsonNumber(p.z) >> >>

JsonDH(p) == << << "theta", JsonNumber(p.theta) >>, << "d", JsonNumber(p.d) >>,
                << "a", JsonNumber(p.a) >>, << "alpha", JsonNumber(p.alpha) >> >>

JsonLimit(l) == << << "min", JsonNumber(l.min) >>, << "max", JsonNumber(l.max) >> >>

\* JSON.stringify(this.config, null, 2)
Stringify(cfg) ==
    << << "name", cfg.name >>,
       << "dhParameters", [i \in DOMAIN cfg.dhParameters |-> JsonDH(cfg.dhParameters[i])] >>,
       << "jointLimits", [i \in DOMAIN cfg.jointLimits |-> JsonLimit(cfg.jointLimits[i])] >>,
       << "jointTypes", cfg.jointTypes >>,
       << "baseOffset", JsonPoint(cfg.baseOffset) >>,
       << "toolOffset", JsonPoint(cfg.toolOffset) >> >>

\* the value of the member named key
Member(json, key) == json[CHOOSE i \in DOMAIN json : json[i][1] = key][2]

ParsePoint(j) == [x |-> Member(j, "x"), y |-> Member(j, "y"), z |-> Member(j, "z")]

ParseDH(j) == [theta |-> Member(j, "theta"), d |-> Member(j, "d"),
               a |-> Member(j, "a"), alpha |-> Member(j, "alpha")]

ParseLimit(j) == [min |-> Member(j, "min"), max |-> Member(j, "max")]

\* JSON.parse(json) as RobotConfig: no validation
Parse(json) ==
    [name |-> Member(json, "name"),
     dhParameters |-> [i \in DOMAIN Member(json, "dhParameters") |->
                          ParseDH(Member(json, "dhParameters")[i])],
     jointLimits |-> [i \in DOMAIN Member(json, "jointLimits") |->
                         ParseLimit(Member(json, "jointLimits")[i])],
     jointTypes |-> Member(json, "jointTypes"),
     baseOffset |-> ParsePoint(Member(json, "baseOffset")),
     toolOffset |-> ParsePoint(Member(json, "toolOffset"))]

(***************************************************************************)
(* calculateDHTransform (lines 67-85)                                      *)
(***************************************************************************)
NNeg(v) == IF v = NaN THEN NaN ELSE -v

\* mutant: the sign of the third entry of the second row lost
DHMatrixSign(ct, st, ca, sa, a, d) ==
    << << ct, NMul(NNeg(st), ca), NMul(st, sa), NMul(a, ct) >>,
       << st, NMul(ct, ca), NMul(ct, sa), NMul(a, st) >>,
       << 0, sa, ca, d >>,
       << 0, 0, 0, Scale >> >>

\* lines 79-84: the standard DH matrix of ct, st, ca, sa (lines 69-72)
DHMatrix(ct, st, ca, sa, a, d) ==
    << << ct, NMul(NNeg(st), ca), NMul(st, sa), NMul(a, ct) >>,
       << st, NMul(ct, ca), NMul(NNeg(ct), sa), NMul(a, st) >>,
       << 0, sa, ca, d >>,
       << 0, 0, 0, Scale >> >>

\* mutant: the zero position params.theta left out of the joint angle
CalculateDHTransformNoZero(params, jointAngle) ==
    DHMatrix(Cos(jointAngle), Sin(jointAngle),
             Cos(params.alpha), Sin(params.alpha), params.a, params.d)

CalculateDHTransform(params, jointAngle) ==
    DHMatrix(Cos(NAdd(params.theta, jointAngle)), Sin(NAdd(params.theta, jointAngle)),
             Cos(params.alpha), Sin(params.alpha), params.a, params.d)

\* math.multiply of two 4x4 matrices
MatMul(A, B) ==
    LET Entry(i, j) ==
            NAdd(NAdd(NMul(A[i][1], B[1][j]), NMul(A[i][2], B[2][j])),
                 NAdd(NMul(A[i][3], B[3][j]), NMul(A[i][4], B[4][j])))
        Row(i) == << Entry(i, 1), Entry(i, 2), Entry(i, 3), Entry(i, 4) >>
    IN  << Row(1), Row(2), Row(3), Row(4) >>

\* mutant: the operands of math.multiply exchanged
RECURSIVE ReduceMultiplyRight(_, _, _)
ReduceMultiplyRight(acc, transforms, i) ==
    IF i > Len(transforms) THEN acc
    ELSE ReduceMultiplyRight(MatMul(transforms[i], acc), transforms, i + 1)

\* transforms.reduce((acc, curr) => math.multiply(acc, curr)), no initial
\* value: the fold starts from the first transform
RECURSIVE ReduceMultiply(_, _, _)
ReduceMultiply(acc, transforms, i) ==
    IF i > Len(transforms) THEN acc
    ELSE ReduceMultiply(MatMul(acc, transforms[i]), transforms, i + 1)

(***************************************************************************)
(* calculateForwardKinematics (lines 92-124).  The result is a Pose, or    *)
(* the error thrown; dhCalls counts the transforms built.                  *)
(***************************************************************************)
\* jointAngles[i]; a missing element is undefined, which arithmetic turns to NaN
At(jointAngles, i) == IF i \in DOMAIN jointAngles THEN jointAngles[i] ELSE NaN

\* lines 110-123: position and orientation of the final transform
Pose(finalTransform, n) ==
    [kind |-> "pose",
     position |-> << finalTransform[1][4], finalTransform[2][4], finalTransform[3][4] >>,
     orientation |-> [i \in 1..3 |-> [j \in 1..3 |-> finalTransform[i][j]]],
     dhCalls |-> n]

\* lines 106-108: reduce without an initial value throws on an empty array
Compose(transforms) ==
    IF Len(transforms) = 0
    THEN [kind |-> "error", message |-> "Reduce of empty array with no initial value",
          N |-> 0, M |-> 0, dhCalls |-> 0]
    ELSE Pose(ReduceMultiply(transforms[1], transforms, 2), Len(transforms))

\* mutant: the length check written as "fewer than", so that extra angles pass
CalculateForwardKinematicsFewer(cfg, nj, jointAngles) ==
    IF Len(jointAngles) < nj
    THEN [kind |-> "error", message |-> "Expected N joint angles, got M",
          N |-> nj, M |-> Len(jointAngles), dhCalls |-> 0]
    ELSE Compose([i \in 1..Len(cfg.dhParameters) |->
                     CalculateDHTransform(cfg.dhParameters[i], At(jointAngles, i))])

\* mutant: the tool offset of the configuration added to the position
WithToolOffset(pose, tool) ==
    IF pose.kind # "pose" THEN pose
    ELSE [pose EXCEPT !.position = << NAdd(@[1], tool.x), NAdd(@[2], tool.y),
                                      NAdd(@[3], tool.z) >>]

CalculateForwardKinematicsWithTool(cfg, nj, jointAngles) ==
    IF Len(jointAngles) # nj
    THEN [kind |-> "error", message |-> "Expected N joint angles, got M",
          N |-> nj, M |-> Len(jointAngles), dhCalls |-> 0]
    ELSE WithToolOffset(Compose([i \in 1..Len(cfg.dhParameters) |->
                                    CalculateDHTransform(cfg.dhParameters[i],
                                                         At(jointAngles, i))]),
                        cfg.toolOffset)

CalculateForwardKinematics(cfg, nj, jointAngles) ==
    IF Len(jointAngles) # nj
    THEN [kind |-> "error", message |-> "Expected N joint angles, got M",
          N |-> nj, M |-> Len(jointAngles), dhCalls |-> 0]
    ELSE Compose([i \in 1..Len(cfg.dhParameters) |->
                     CalculateDHTransform(cfg.dhParameters[i], At(jointAngles, i))])

\* getWorkspaceRadius (lines 308-310): reduce((sum, params) => sum + params.a, 0)
RECURSIVE ReduceSumA(_, _, _)
ReduceSumA(sum, dh, i) ==
    IF i > Len(dh) THEN sum ELSE ReduceSumA(sum + dh[i].a, dh, i + 1)

\* mutant: the link offsets d counted into the radius
RECURSIVE ReduceSumAD(_, _, _)
ReduceSumAD(sum, dh, i) ==
    IF i > Len(dh) THEN sum ELSE ReduceSumAD(sum + dh[i].a + dh[i].d, dh, i + 1)

GetWorkspaceRadiusWithOffsets(cfg) == ReduceSumAD(0, cfg.dhParameters, 1)

GetWorkspaceRadius(cfg) == ReduceSumA(0, cfg.dhParameters, 1)


(***************************************************************************)
(* Inputs                                                                  *)
(***************************************************************************)
\* the longest joint-angle vector a caller passes
MaxAngles == 7

\* joint-angle vectors: every length up to MaxAngles, all joints at 0 or
\* all at pi/4 (the examples), and the vector of the second unit test
JointAngleInputs ==
    { [i \in 1..n |-> v] : n \in 0..MaxAngles, v \in {0, Pi \div 4} }
    \cup { << HalfPi, 0, HalfPi >> }

\* target positions: the three targets of the unit tests, a target above
\* the arm, a target the unit-test robot reaches in both elbow branches, and
\* the shoulder position of the unit-test robot at theta1 = 0
Targets ==
    { << 3000, 3000, 3000 >>, << 5000, 2000, 3000 >>, << 20000, 20000, 20000 >>,
      << 5000, 0, 11000 >>, << -5000, 4000, 1000 >>, << 3000, 0, 0 >> }

(***************************************************************************)
(* State                                                                   *)
(***************************************************************************)
VARIABLES
    config,           \* this.config
    numJoints,        \* this.numJoints
    pc,               \* "idle", or the loop of calculateInverseKinematics: "elbowDown", "elbowUp"
    op,               \* the public method called last (running when pc # "idle")
    arg,              \* its argument
    theta1,           \* the loop variable of the running sweep
    bestSolution,     \* line 174
    elbowUpSolution,  \* line 246
    solutions,        \* line 146
    ikResult,         \* what the last calculateInverseKinematics returned
    ret,              \* what the last public method returned or threw
    fkCalls,          \* calculateForwardKinematics calls made by the last method
    iterations,       \* loop iterations made by the last method
    observed          \* history: target and flag of the last direct call of
                      \* calculateInverseKinematics, kept until a call of it or
                      \* of isReachable on another target starts

\* the RobotVisualizer of src/src/visualizer.ts
VARIABLES
    robot,            \* this.robot: null or a RobotKinematics
    jointAngles,      \* this.jointAngles
    loading,          \* the loadRobot calls waiting at the await of line 81: a bag of names
    controls,         \* the joint controls in the page, by the index they captured
    shown,            \* the text of the position element (lines 145-149)
    raised            \* the error the last handler ended with, if any

engine == << config, numJoints, pc, op, arg, theta1, bestSolution, elbowUpSolution,
             solutions, ikResult, ret, fkCalls, iterations, observed >>

visualizer == << robot, jointAngles, loading, controls, shown, raised >>

vars == << engine, visualizer >>

Null == [isNull |-> TRUE, solution |-> << >>, error |-> 0]

Candidate(solution, error) == [isNull |-> FALSE, solution |-> solution, error |-> error]

NoResult == [kind |-> "none"]

IKResult(sols, valid) == [kind |-> "ik", solutions |-> sols, valid |-> valid]

\* visualizer.ts lines 28-30: the fields the constructor sets
NoRobot == [kind |-> "null"]

\* the engine used as a library: no page
NoVisualizer ==
    /\ robot = NoRobot
    /\ jointAngles = << >>
    /\ loading = EmptyBag
    /\ controls = 0
    /\ shown = NoResult
    /\ raised = NoResult

\* lines 43-46: the instance once config is stored, no method called yet
Constructed ==
    /\ numJoints = Len(config.dhParameters)
    /\ pc = "idle"
    /\ arg = << >>
    /\ theta1 = 0
    /\ bestSolution = Null
    /\ elbowUpSolution = Null
    /\ solutions = << >>
    /\ ikResult = NoResult
    /\ ret = NoResult
    /\ fkCalls = 0
    /\ iterations = 0
    /\ observed = NoResult

\* the constructor (lines 41-47), called directly or by fromJSON (lines 52-55)
Init ==
    /\ \E cfg \in Configs :
          \/ op = "constructor" /\ config = cfg
          \/ op = "fromJSON" /\ config = Parse(Stringify(cfg))
    /\ Constructed
    /\ NoVisualizer

IKLocals == << theta1, bestSolution, elbowUpSolution, solutions >>

(***************************************************************************)
(* Public methods that run to completion in one step                       *)
(***************************************************************************)
\* mutant: the joint angles written into the zero positions of the configuration
ForwardKinematicsStoring ==
    /\ pc = "idle"
    /\ \E angles \in JointAngleInputs :
          /\ op' = "calculateForwardKinematics"
          /\ arg' = angles
          /\ ret' = CalculateForwardKinematics(config, numJoints, angles)
          /\ config' = IF Len(angles) # numJoints THEN config
                       ELSE [config EXCEPT !.dhParameters =
                                [i \in DOMAIN @ |-> [@[i] EXCEPT !.theta = angles[i]]]]
    /\ fkCalls' = 1
    /\ iterations' = 0
    /\ UNCHANGED << visualizer, numJoints, pc, IKLocals, ikResult, observed >>

\* mutant: the last pose cached and returned again, whatever the angles
ForwardKinematicsCached ==
    /\ pc = "idle"
    /\ \E angles \in JointAngleInputs :
          /\ op' = "calculateForwardKinematics"
          /\ arg' = angles
          /\ ret' = IF ret.kind = "pose" THEN ret
                    ELSE CalculateForwardKinematics(config, numJoints, angles)
    /\ fkCalls' = 1
    /\ iterations' = 0
    /\ UNCHANGED << visualizer, config, numJoints, pc, IKLocals, ikResult, observed >>

ForwardKinematics ==
    /\ pc = "idle"
    /\ \E angles \in JointAngleInputs :
          /\ op' = "calculateForwardKinematics"
          /\ arg' = angles
          /\ ret' = CalculateForwardKinematics(config, numJoints, angles)
    /\ fkCalls' = 1
    /\ iterations' = 0
    /\ UNCHANGED << visualizer, config, numJoints, pc, IKLocals, ikResult, observed >>

WorkspaceRadius ==
    /\ pc = "idle"
    /\ op' = "getWorkspaceRadius"
    /\ arg' = << >>
    /\ ret' = [kind |-> "number", value |-> GetWorkspaceRadius(config)]
    /\ fkCalls' = 0
    /\ iterations' = 0
    /\ UNCHANGED << visualizer, config, numJoints, pc, IKLocals, ikResult, observed >>

\* getNumJoints (lines 129-131)
NumJoints ==
    /\ pc = "idle"
    /\ op' = "getNumJoints"
    /\ arg' = << >>
    /\ ret' = [kind |-> "number", value |-> numJoints]
    /\ fkCalls' = 0
    /\ iterations' = 0
    /\ UNCHANGED << visualizer, config, numJoints, pc, IKLocals, ikResult, observed >>

\* the joint variables calculateDHTransform is called with
JointVariables == { 0, Pi \div 4, HalfPi, -(Pi \div 4) }

\* calculateDHTransform (lines 67-85) on one joint of the configuration
DHTransform ==
    /\ pc = "idle"
    /\ \E i \in DOMAIN config.dhParameters, q \in JointVariables :
          /\ op' = "calculateDHTransform"
          /\ arg' = << config.dhParameters[i], q >>
          /\ ret' = [kind |-> "matrix",
                     value |-> CalculateDHTransform(config.dhParameters[i], q)]
    /\ fkCalls' = 0
    /\ iterations' = 0
    /\ UNCHANGED << visualizer, config, numJoints, pc, IKLocals, ikResult, observed >>

\* toJSON (lines 60-62)
ToJSON ==
    /\ pc = "idle"
    /\ op' = "toJSON"
    /\ arg' = << >>
    /\ ret' = [kind |-> "json", value |-> Stringify(config)]
    /\ fkCalls' = 0
    /\ iterations' = 0
    /\ UNCHANGED << visualizer, config, numJoints, pc, IKLocals, ikResult, observed >>

(***************************************************************************)
(* calculateInverseKinematics (lines 138-293) and isReachable (300-303)    *)
(***************************************************************************)
\* mutant: "at least three joints"
SupportedAtLeast(nj) == nj >= 3

\* line 140: only 3-DOF robots are solved
Supported(nj) == nj = 3

\* line 167
MaxReach(cfg) ==
    cfg.dhParameters[1].a + cfg.dhParameters[2].a + cfg.dhParameters[3].a

\* line 163
PlanarRadius(target) == Sqrt(target[1] * target[1] + target[2] * target[2])

\* mutant: the comparison of line 168 reversed
UnreachableReversed(cfg, target) == Less(PlanarRadius(target), MaxReach(cfg))

\* line 168: r > maxReach
Unreachable(cfg, target) == Less(MaxReach(cfg), PlanarRadius(target))

\* line 175
StepSize == Pi \div 180

\* line 282: the tolerance of the elbow-up branch, 0.1
Tolerance == 1000

\* lines 218-222 and 276-280
PositionError(position, target) ==
    LET sx == NSqDiff(position[1], target[1])
        sy == NSqDiff(position[2], target[2])
        sz == NSqDiff(position[3], target[3])
    IN  IF sx = NaN \/ sy = NaN \/ sz = NaN THEN NaN ELSE Sqrt(sx + sy + sz)

\* lines 178-187 and 248-257: the vector from the shoulder to the target
Vector(dx, dy, dz) ==
    [dx |-> dx, dy |-> dy, dz |-> dz, length |-> Sqrt(dx * dx + dy * dy + dz * dz)]

ShoulderToTarget(cfg, target, th1) ==
    Vector(target[1] - Mul(cfg.dhParameters[1].a, Cos(th1)),
           target[2] - Mul(cfg.dhParameters[1].a, Sin(th1)),
           target[3] - (cfg.dhParameters[1].d + cfg.dhParameters[2].d))

\* line 195
CosTheta3(a2, a3, L) == FDiv(Mul(a2, a2) + Mul(a3, a3) - Mul(L, L), 2 * Mul(a2, a3))

\* lines 203 and 265
CosTheta2(a2, a3, L) == FDiv(Mul(a2, a2) + Mul(L, L) - Mul(a3, a3), 2 * Mul(a2, L))

\* lines 207-213 and 269-271: theta2 = beta - alpha
ShoulderAngle(v, cosTheta2) ==
    NSub(Atan2(v.dz, Sqrt(v.dx * v.dx + v.dy * v.dy)), Acos(cosTheta2))

Skip == [skip |-> TRUE]

\* lines 215-222 and 273-280: the candidate, verified by forward kinematics
Verified(solution, target, fkResult) ==
    [skip |-> FALSE, solution |-> solution, fk |-> fkResult,
     error |-> IF fkResult.kind = "pose"
               THEN PositionError(fkResult.position, target) ELSE NaN]

\* mutant: the candidate verified on its first two angles only
VerifyWithoutElbow(cfg, nj, target, solution) ==
    Verified(solution, target, CalculateForwardKinematics(cfg, nj, SubSeq(solution, 1, 2)))

Verify(cfg, nj, target, solution) ==
    Verified(solution, target, CalculateForwardKinematics(cfg, nj, solution))

\* one iteration of the elbow-down loop (lines 178-222)
ElbowDownFrom(cfg, nj, target, th1, v, cosTheta3, cosTheta2) ==
    IF v.length > cfg.dhParameters[2].a + cfg.dhParameters[3].a THEN Skip
    ELSE IF AbsGtOne(cosTheta3) THEN Skip
    ELSE IF AbsGtOne(cosTheta2) THEN Skip
    ELSE Verify(cfg, nj, target, << th1, ShoulderAngle(v, cosTheta2), Acos(cosTheta3) >>)

ElbowDownAt(cfg, nj, target, th1, v) ==
    ElbowDownFrom(cfg, nj, target, th1, v,
                  CosTheta3(cfg.dhParameters[2].a, cfg.dhParameters[3].a, v.length),
                  CosTheta2(cfg.dhParameters[2].a, cfg.dhParameters[3].a, v.length))

ElbowDownCandidate(cfg, nj, target, th1) ==
    ElbowDownAt(cfg, nj, target, th1, ShoulderToTarget(cfg, target, th1))

\* one iteration of the first loop with the elbow angle negated: the three
\* skips of lines 190-206 and the elbow angle recomputed at th1
ElbowDownNegatedFrom(cfg, nj, target, th1, v, cosTheta3, cosTheta2) ==
    IF v.length > cfg.dhParameters[2].a + cfg.dhParameters[3].a THEN Skip
    ELSE IF AbsGtOne(cosTheta3) THEN Skip
    ELSE IF AbsGtOne(cosTheta2) THEN Skip
    ELSE Verify(cfg, nj, target,
                << th1, ShoulderAngle(v, cosTheta2), NNeg(Acos(cosTheta3)) >>)

\* mutant: the second loop recomputing the elbow angle at each base angle
ElbowUpFromRecomputed(cfg, nj, target, th1, invertedTheta3, v, cosTheta2) ==
    ElbowDownNegatedFrom(cfg, nj, target, th1, v,
        CosTheta3(cfg.dhParameters[2].a, cfg.dhParameters[3].a, v.length), cosTheta2)

\* one iteration of the elbow-up loop (lines 248-280)
ElbowUpFrom(cfg, nj, target, th1, invertedTheta3, v, cosTheta2) ==
    IF v.length > cfg.dhParameters[2].a + cfg.dhParameters[3].a THEN Skip
    ELSE IF AbsGtOne(cosTheta2) THEN Skip
    ELSE Verify(cfg, nj, target, << th1, ShoulderAngle(v, cosTheta2), invertedTheta3 >>)

ElbowUpAt(cfg, nj, target, th1, invertedTheta3, v) ==
    ElbowUpFrom(cfg, nj, target, th1, invertedTheta3, v,
                CosTheta2(cfg.dhParameters[2].a, cfg.dhParameters[3].a, v.length))

ElbowUpCandidate(cfg, nj, target, th1, invertedTheta3) ==
    ElbowUpAt(cfg, nj, target, th1, invertedTheta3, ShoulderToTarget(cfg, target, th1))

\* mutant: the tolerance of line 282 applied to the elbow-down candidate too
UpdateBestWithinTolerance(best, c) ==
    IF Less(c.error, Tolerance) /\ (best.isNull \/ Less(c.error, best.error))
    THEN Candidate(c.solution, c.error)
    ELSE best

\* line 225
UpdateBest(best, c) ==
    IF best.isNull \/ Less(c.error, best.error) THEN Candidate(c.solution, c.error)
    ELSE best

\* mutant: the elbow-up candidate tracked without the tolerance of line 282
UpdateElbowUpAny(best, c) ==
    IF best.isNull \/ Less(c.error, best.error) THEN Candidate(c.solution, c.error)
    ELSE best

\* line 282
UpdateElbowUp(best, c) ==
    IF Less(c.error, Tolerance) /\ (best.isNull \/ Less(c.error, best.error))
    THEN Candidate(c.solution, c.error)
    ELSE best

\* mutant: the elbow angle of the chosen solution taken over as it is
InvertedTheta3Kept(best) == best.solution[3]

\* line 243
InvertedTheta3(best) == IF best.solution[3] = NaN THEN NaN ELSE -best.solution[3]

\* mutant: reachable only when both elbow branches were found
ReachableFromBoth(result) == Len(result.solutions) > 1

\* line 302: isReachable returns result.valid
ReachableFrom(result) == result.valid

\* mutant: the empty result flagged valid
NoSolutionValid == IKResult(<< >>, TRUE)

\* lines 142, 170 and 232
NoSolution == IKResult(<< >>, FALSE)

\* line 292
Found(sols) == IKResult(sols, TRUE)

\* the last direct call's outcome, kept while isReachable asks about its target
Remembered(method, target) ==
    IF method = "isReachable" /\ observed # NoResult /\ observed.target = target
    THEN observed ELSE NoResult

\* a return of calculateInverseKinematics, to the caller or through isReachable
Finish(method, target, result) ==
    /\ pc' = "idle"
    /\ ikResult' = result
    /\ ret' = IF method = "isReachable"
              THEN [kind |-> "boolean", value |-> ReachableFrom(result)]
              ELSE result
    /\ observed' = IF method = "isReachable" THEN Remembered(method, target)
                   ELSE [kind |-> "observed", target |-> target, valid |-> result.valid]

\* an exception thrown by calculateForwardKinematics leaves both methods
Throw(error) ==
    /\ pc' = "idle"
    /\ ikResult' = error
    /\ ret' = error
    /\ observed' = NoResult

\* lines 138-175: up to the first loop
Enter(method, target) ==
    /\ pc = "idle"
    /\ op' = method
    /\ arg' = target
    /\ fkCalls' = 0
    /\ iterations' = 0
    /\ theta1' = 0
    /\ bestSolution' = Null
    /\ elbowUpSolution' = Null
    /\ solutions' = << >>
    /\ IF ~Supported(numJoints) THEN Finish(method, target, NoSolution)
       ELSE IF Unreachable(config, target) THEN Finish(method, target, NoSolution)
       ELSE /\ pc' = "elbowDown"
            /\ ikResult' = NoResult
            /\ ret' = NoResult
            /\ observed' = Remembered(method, target)
    /\ UNCHANGED << visualizer, config, numJoints >>

InverseKinematics == \E target \in Targets : Enter("calculateInverseKinematics", target)

IsReachable == \E target \in Targets : Enter("isReachable", target)

\* lines 189-227: the body of the first loop, for the candidate c
ElbowDownBody(c) ==
    IF c.skip
    THEN UNCHANGED << pc, bestSolution, fkCalls, ikResult, ret, observed >>
    ELSE /\ fkCalls' = fkCalls + 1
         /\ IF c.fk.kind = "error"
            THEN Throw(c.fk) /\ UNCHANGED bestSolution
            ELSE /\ bestSolution' = UpdateBest(bestSolution, c)
                 /\ UNCHANGED << pc, ikResult, ret, observed >>

\* one iteration of the loop of line 177
ElbowDownStep ==
    /\ pc = "elbowDown"
    /\ theta1 < TwoPi
    /\ ElbowDownBody(ElbowDownCandidate(config, numJoints, arg, theta1))
    /\ theta1' = theta1 + StepSize
    /\ iterations' = iterations + 1
    /\ UNCHANGED << visualizer, config, numJoints, op, arg, elbowUpSolution, solutions >>

\* lines 230-246: after the first loop
ElbowDownDone ==
    /\ pc = "elbowDown"
    /\ ~(theta1 < TwoPi)
    /\ IF bestSolution.isNull
       THEN /\ Finish(op, arg, NoSolution)
            /\ UNCHANGED << theta1, solutions >>
       ELSE /\ solutions' = Append(solutions, bestSolution.solution)
            /\ theta1' = 0
            /\ pc' = "elbowUp"
            /\ UNCHANGED << ikResult, ret, observed >>
    /\ UNCHANGED << visualizer, config, numJoints, op, arg, bestSolution, elbowUpSolution,
                    fkCalls, iterations >>

\* lines 259-284: the body of the second loop, for the candidate c
ElbowUpBody(c) ==
    IF c.skip
    THEN UNCHANGED << pc, elbowUpSolution, fkCalls, ikResult, ret, observed >>
    ELSE /\ fkCalls' = fkCalls + 1
         /\ IF c.fk.kind = "error"
            THEN Throw(c.fk) /\ UNCHANGED elbowUpSolution
            ELSE /\ elbowUpSolution' = UpdateElbowUp(elbowUpSolution, c)
                 /\ UNCHANGED << pc, ikResult, ret, observed >>

\* one iteration of the loop of line 247
ElbowUpStep ==
    /\ pc = "elbowUp"
    /\ theta1 < TwoPi
    /\ ElbowUpBody(ElbowUpCandidate(config, numJoints, arg, theta1,
                                    InvertedTheta3(bestSolution)))
    /\ theta1' = theta1 + StepSize
    /\ iterations' = iterations + 1
    /\ UNCHANGED << visualizer, config, numJoints, op, arg, bestSolution, solutions >>

\* mutant: the elbow-up solution put in front (unshift for push)
WithElbowUpFirst(sols, elbowUp) ==
    IF elbowUp.isNull THEN sols ELSE << elbowUp.solution >> \o sols

\* lines 287-290: solutions.push(elbowUpSolution.solution)
WithElbowUp(sols, elbowUp) ==
    IF elbowUp.isNull THEN sols ELSE Append(sols, elbowUp.solution)

\* lines 287-292: after the second loop
ElbowUpDone ==
    /\ pc = "elbowUp"
    /\ ~(theta1 < TwoPi)
    /\ solutions' = WithElbowUp(solutions, elbowUpSolution)
    /\ Finish(op, arg, Found(solutions'))
    /\ UNCHANGED << visualizer, config, numJoints, op, arg, theta1, bestSolution,
                    elbowUpSolution, fkCalls, iterations >>

Next ==
    \/ ForwardKinematics
    \/ WorkspaceRadius
    \/ NumJoints
    \/ DHTransform
    \/ ToJSON
    \/ InverseKinematics
    \/ IsReachable
    \/ ElbowDownStep
    \/ ElbowDownDone
    \/ ElbowUpStep
    \/ ElbowUpDone

Spec == Init /\ [][Next]_vars

(***************************************************************************)
(* The visualizer (src/src/visualizer.ts, src/src/configs/robotConfigs.js) *)
(*                                                                         *)
(* Each event handler runs to completion in one step.  A loadRobot call    *)
(* stops at its await (line 81) and resumes in a later step; calls that    *)
(* wait may resume in any order, with other handlers in between.           *)
(***************************************************************************)
\* the values the robot-select element can have: the three names of
\* robotConfigs.js lines 5-9 and a name that is not among them
RobotNames == { "staubli_rx90b", "kuka_kr6", "abb_irb120", "unknown_robot" }

\* robotConfigs.js lines 1-9.  The three JSON files are not part of the
\* sources; configurations of 6, 3 and 2 joints stand for them, so that a
\* selection changes the joint count.
configs ==
    [name \in { "staubli_rx90b", "kuka_kr6", "abb_irb120" } |->
        CASE name = "staubli_rx90b" -> StaubliRX90B
          [] name = "kuka_kr6" -> ThreeDOFRobot
          [] name = "abb_irb120" -> TwoJointRobot]

\* loadRobotConfig (robotConfigs.js lines 11-16)
LoadRobotConfig(robotName) ==
    IF robotName \notin DOMAIN configs
    THEN [kind |-> "error", message |-> "Robot configuration not found", name |-> robotName]
    ELSE [kind |-> "config", value |-> configs[robotName]]

\* new RobotKinematics(config) (RobotKinematics.ts lines 41-47)
RobotKinematics(cfg) ==
    [kind |-> "RobotKinematics", config |-> cfg, numJoints |-> Len(cfg.dhParameters)]

\* line 83: new Array(n).fill(0)
Zeros(n) == [i \in 1..n |-> 0]

\* the loadRobot calls that may wait at once
MaxLoading == 2

Digits == << "0", "1", "2", "3", "4", "5", "6", "7", "8", "9" >>

IsDigit(c) == \E i \in DOMAIN Digits : Digits[i] = c

DigitValue(c) == (CHOOSE i \in DOMAIN Digits : Digits[i] = c) - 1

\* the leading digits of text read as a decimal number
RECURSIVE ParseDigits(_, _)
ParseDigits(text, value) ==
    IF text = << >> \/ ~IsDigit(Head(text)) THEN value
    ELSE ParseDigits(Tail(text), 10 * value + DigitValue(Head(text)))

\* parseFloat on a text of whole degrees (lines 108 and 120): NaN when the
\* text does not start with a number
ParseFloat(text) ==
    IF text = << >> THEN NaN
    ELSE IF IsDigit(Head(text)) THEN ParseDigits(text, 0)
    ELSE IF Head(text) = "-" /\ Tail(text) # << >> /\ IsDigit(Head(Tail(text)))
         THEN -ParseDigits(Tail(text), 0)
    ELSE NaN

\* lines 108 and 120: degrees * Math.PI / 180
Radians(degrees) ==
    IF degrees = NaN THEN NaN
    ELSE IF degrees >= 0 THEN (degrees * Pi) \div 180
    ELSE -(((-degrees) * Pi) \div 180)

\* the value a slider (min -180, max 180) hands to its input handler
SliderTexts == { << "9", "0" >> }

\* the value of a number field emptied, at its change event
NumberTexts == { << >> }

\* array[index] = value in JavaScript, index counted from 1: an index past
\* the end lengthens the array, the holes reading as undefined (NaN in
\* arithmetic)
ArrayAssign(array, index, value) ==
    IF index <= Len(array) THEN [array EXCEPT ![index] = value]
    ELSE array \o [i \in 1..(index - Len(array) - 1) |-> NaN] \o << value >>

\* toFixed(3) of a length (line 148), in thousandths
ToFixed3(v) == IF v = NaN THEN NaN ELSE RDiv(v, Scale \div 1000)

\* lines 133-142: nothing without a robot, else forward kinematics of the
\* joint angles
UpdateRobotModel(r, angles) ==
    IF r = NoRobot THEN [kind |-> "return"]
    ELSE CalculateForwardKinematics(r.config, r.numJoints, angles)

\* lines 145-149, or the exception of line 142 leaving the handler
Drawn(fkResult) ==
    /\ shown' = IF fkResult.kind = "pose"
                THEN [kind |-> "position",
                      value |-> [i \in 1..3 |-> ToFixed3(fkResult.position[i])]]
                ELSE shown
    /\ raised' = IF fkResult.kind = "error" THEN fkResult ELSE NoResult

\* mutant: the container not emptied (line 92 left out), so that the controls
\* of the robot shown before stay in the page beside the new ones
UpdateJointControlsKeeping(angles) ==
    IF controls > Len(angles) THEN controls ELSE Len(angles)

\* updateJointControls (lines 88-131): the container emptied, then one
\* control per joint angle, with indices 1..Len(angles)
UpdateJointControls(angles) == Len(angles)

\* the constructor and init (lines 23-33, 62, 71-77): no robot, no angles,
\* and the first loadRobot call waiting.  The engine variables stand still:
\* the page's instance is the record in robot.
VisualizerInit ==
    /\ op = "constructor" /\ config = TestRobot
    /\ Constructed
    /\ robot = NoRobot
    /\ jointAngles = << >>
    /\ \E robotName \in RobotNames : loading = SetToBag({ robotName })
    /\ controls = 0
    /\ shown = NoResult
    /\ raised = NoResult

\* the change handler of the select element (line 74): loadRobot up to its await
SelectRobot ==
    /\ BagCardinality(loading) < MaxLoading
    /\ \E robotName \in RobotNames : loading' = loading (+) SetToBag({ robotName })
    /\ raised' = NoResult
    /\ UNCHANGED << engine, robot, jointAngles, controls, shown >>

\* lines 82-85, for the configuration loaded
LoadRobotBody(r, angles, fkResult) ==
    /\ robot' = r
    /\ jointAngles' = angles
    /\ Drawn(fkResult)
    /\ controls' = IF fkResult.kind = "error" THEN controls
                   ELSE UpdateJointControls(angles)

\* lines 82-84: the instance made of the configuration loaded, its angles
\* all zero, drawn
LoadRobot(cfg) ==
    \E fkResult \in { UpdateRobotModel(RobotKinematics(cfg), Zeros(Len(cfg.dhParameters))) } :
        LoadRobotBody(RobotKinematics(cfg), Zeros(Len(cfg.dhParameters)), fkResult)

\* loadRobot resumes after the await of line 81 with a configuration
LoadRobotResumes ==
    /\ \E robotName \in BagToSet(loading) :
          /\ LoadRobotConfig(robotName).kind = "config"
          /\ loading' = loading (-) SetToBag({ robotName })
          /\ LoadRobot(LoadRobotConfig(robotName).value)
    /\ UNCHANGED engine

\* the await of line 81 throws: loadRobot ends there
LoadRobotFails ==
    /\ \E robotName \in BagToSet(loading) :
          /\ LoadRobotConfig(robotName).kind = "error"
          /\ loading' = loading (-) SetToBag({ robotName })
          /\ raised' = LoadRobotConfig(robotName)
    /\ UNCHANGED << engine, robot, jointAngles, controls, shown >>

\* lines 108 and 111, lines 120 and 123: the handlers of the control that
\* captured index
JointInput(index, text) ==
    /\ jointAngles' = ArrayAssign(jointAngles, index, Radians(ParseFloat(text)))
    /\ \E fkResult \in { UpdateRobotModel(robot, jointAngles') } : Drawn(fkResult)
    /\ UNCHANGED << engine, robot, loading, controls >>

\* the input handler of a slider (lines 106-112)
SliderInput ==
    \E index \in 1..controls, text \in SliderTexts : JointInput(index, text)

\* the change handler of a number field (lines 118-124)
NumberChange ==
    \E index \in 1..controls, text \in NumberTexts : JointInput(index, text)

VisualizerNext ==
    \/ SelectRobot
    \/ LoadRobotResumes
    \/ LoadRobotFails
    \/ SliderInput
    \/ NumberChange

VisualizerSpec == VisualizerInit /\ [][VisualizerNext]_vars

(***************************************************************************)
(* Properties                                                              *)
(***************************************************************************)
IKMethods == { "calculateInverseKinematics", "isReachable" }

Returned(method) == pc = "idle" /\ op = method

\* the sum of the link lengths a, last link first
RECURSIVE LinkSum(_, _)
LinkSum(dh, n) == IF n = 0 THEN 0 ELSE dh[n].a + LinkSum(dh, n - 1)

TotalLinkLength(cfg) == LinkSum(cfg.dhParameters, Len(cfg.dhParameters))

\* squared distances, in 1/Scale^2
PlanarSq(target) == target[1] * target[1] + target[2] * target[2]

DistanceSq(target) == PlanarSq(target) + target[3] * target[3]

Empty == [kind |-> "ik", solutions |-> << >>, valid |-> FALSE]

\* what the caller of the running or last method gets from an empty result
EmptyTo(method) ==
    IF method = "isReachable" THEN [kind |-> "boolean", value |-> FALSE] ELSE Empty

\* C1: calculateForwardKinematics with M angles on an N-joint configuration,
\* M # N, throws "Expected N joint angles, got M" and builds no transform.
C1_JointCountError ==
    (Returned("calculateForwardKinematics") /\ Len(arg) # Len(config.dhParameters))
    => /\ ret.kind = "error"
       /\ ret.message = "Expected N joint angles, got M"
       /\ ret.N = Len(config.dhParameters)
       /\ ret.M = Len(arg)
       /\ ret.dhCalls = 0

\* the unit test: two angles for three joints
C1_Witness ==
    /\ Returned("calculateForwardKinematics")
    /\ Len(config.dhParameters) = 3 /\ Len(arg) = 2
    /\ ret.kind = "error" /\ ret.N = 3 /\ ret.M = 2

\* C2 (as claimed): a target farther from the base origin than
\* getWorkspaceRadius() gets valid = false and no solution, from
\* calculateInverseKinematics and from isReachable.
C2_BeyondRadiusInvalid ==
    (pc = "idle" /\ op \in IKMethods
        /\ DistanceSq(arg) > TotalLinkLength(config) * TotalLinkLength(config))
    => ikResult = Empty /\ ret = EmptyTo(op)

\* C3: on a 3-joint configuration a target whose planar radius exceeds
\* a1 + a2 + a3 is rejected before the first loop: no iteration, no forward
\* kinematics, the empty invalid result.
C3_FastRejection ==
    (op \in IKMethods /\ Len(config.dhParameters) = 3
        /\ PlanarSq(arg) > TotalLinkLength(config) * TotalLinkLength(config))
    => /\ pc = "idle"
       /\ iterations = 0 /\ fkCalls = 0
       /\ ikResult = Empty /\ ret = EmptyTo(op)

\* scenario C: (2.0, 2.0, 2.0) against the robot of reach 0.9
C3_Witness ==
    /\ Returned("isReachable")
    /\ config = TestRobot /\ arg = << 20000, 20000, 20000 >>
    /\ ret = [kind |-> "boolean", value |-> FALSE] /\ ikResult = Empty

\* C4: on a configuration whose joint count is not 3 the solver returns the
\* empty invalid result at once, as a value: no loop, no forward kinematics,
\* no error.
C4_OtherJointCounts ==
    (op \in IKMethods /\ Len(config.dhParameters) # 3)
    => /\ pc = "idle"
       /\ iterations = 0 /\ fkCalls = 0
       /\ ikResult = Empty /\ ret = EmptyTo(op)

C4_Witness ==
    /\ Returned("calculateInverseKinematics")
    /\ config = StaubliRX90B /\ arg = << 5000, 2000, 3000 >>
    /\ ret = Empty

HasPrismatic(cfg) == \E i \in DOMAIN cfg.jointTypes : cfg.jointTypes[i] = "prismatic"

\* C5 (as claimed): on a 3-joint configuration with a prismatic joint the
\* search is not run and the result is the empty invalid one.
C5_PrismaticNotSolved ==
    (pc = "idle" /\ op \in IKMethods
        /\ Len(config.dhParameters) = 3 /\ HasPrismatic(config))
    => /\ iterations = 0
       /\ ikResult = Empty

\* C6: whatever calculateInverseKinematics returns, valid = (solutions is
\* not empty).
C6_ValidIffSolutions ==
    ikResult.kind = "ik" => (ikResult.valid <=> Len(ikResult.solutions) > 0)

\* the success path: a search that ran and returned a solution
C6_Witness ==
    /\ Returned("calculateInverseKinematics")
    /\ iterations > 0
    /\ ret.kind = "ik" /\ ret.valid /\ Len(ret.solutions) > 0

\* C7: a result holds 0, 1 or 2 solutions of three angles each; a valid one
\* holds the elbow-down candidate first and the accepted elbow-up candidate,
\* if any, second.
C7_SolutionsShape ==
    ikResult.kind = "ik"
    => /\ Len(ikResult.solutions) \in 0..2
       /\ \A i \in DOMAIN ikResult.solutions : Len(ikResult.solutions[i]) = 3
       /\ ikResult.valid
          => /\ ~bestSolution.isNull
             /\ ikResult.solutions[1] = bestSolution.solution
             /\ ikResult.solutions[1][3] = NaN \/ ikResult.solutions[1][3] >= 0
             /\ Len(ikResult.solutions) = 2 <=> ~elbowUpSolution.isNull
             /\ Len(ikResult.solutions) = 2
                => /\ ikResult.solutions[2] = elbowUpSolution.solution
                   /\ ikResult.solutions[2][3] <= 0

C7_Witness ==
    /\ Returned("calculateInverseKinematics")
    /\ ret.kind = "ik" /\ ret.valid /\ Len(ret.solutions) = 2
    /\ ret.solutions[1][3] > 0 /\ ret.solutions[2][3] < 0

\* the position error of a solution fed back through forward kinematics
RoundTripError(sol) ==
    PositionError(CalculateForwardKinematics(config, numJoints, sol).position, arg)

\* C8 (as claimed): the first solution of a valid result, fed back through
\* calculateForwardKinematics, is within 0.1 of the target.
C8_RoundTrip ==
    (Returned("calculateInverseKinematics") /\ ret.kind = "ik" /\ ret.valid)
    => Less(RoundTripError(ret.solutions[1]), Tolerance)

\* C9: isReachable(target) returns the valid flag of the result of its call
\* of calculateInverseKinematics(target), which is the flag a direct call on
\* the same target returned.
C9_ReachableIsValidFlag ==
    Returned("isReachable")
    => /\ ret.kind = "boolean"
       /\ ikResult.kind = "ik"
       /\ ret.value = ikResult.valid
       /\ observed # NoResult => observed.target = arg /\ ret.value = observed.valid

\* a direct call and then isReachable on the same reachable target
C9_Witness ==
    /\ Returned("isReachable")
    /\ observed # NoResult /\ observed.target = arg
    /\ iterations > 0
    /\ ret = [kind |-> "boolean", value |-> TRUE]

\* the configuration with everything but the link lengths changed
OtherThanLengths(cfg) ==
    [cfg EXCEPT
        !.dhParameters = [i \in DOMAIN cfg.dhParameters |->
                             DH(Pi \div 4, cfg.dhParameters[i].d + Scale, cfg.dhParameters[i].a,
                                HalfPi - cfg.dhParameters[i].alpha)],
        !.jointLimits = [i \in DOMAIN cfg.jointLimits |-> [min |-> 0, max |-> HalfPi]],
        !.jointTypes = [i \in DOMAIN cfg.jointTypes |-> "prismatic"],
        !.baseOffset = [x |-> Scale, y |-> Scale, z |-> Scale],
        !.toolOffset = [x |-> Scale, y |-> 0, z |-> Scale]]

\* C10: getWorkspaceRadius() is the sum of the a fields (0 for the empty
\* chain, 0.9 for three links of 0.3) and changes with nothing else.
C10_RadiusIsLinkSum ==
    Returned("getWorkspaceRadius")
    => /\ ret.value = TotalLinkLength(config)
       /\ ret.value = GetWorkspaceRadius(OtherThanLengths(config))
       /\ config = EmptyRobot => ret.value = 0
       /\ config = TestRobot => ret.value = 9000

\* scenario B
C10_Witness ==
    /\ Returned("getWorkspaceRadius")
    /\ config = TestRobot
    /\ ret = [kind |-> "number", value |-> 9000]

\* C11 (as claimed): the position calculateForwardKinematics returns is never
\* farther from the base origin than getWorkspaceRadius().
C11_ReachBound ==
    (Returned("calculateForwardKinematics") /\ ret.kind = "pose")
    => DistanceSq(ret.position) <= TotalLinkLength(config) * TotalLinkLength(config)

\* the product T1 . T2 . ... . Tn of the joints' DH transforms, joint 1 leftmost
RECURSIVE OrderedProduct(_, _, _)
OrderedProduct(dh, angles, n) ==
    IF n = 1 THEN CalculateDHTransform(dh[1], angles[1])
    ELSE MatMul(OrderedProduct(dh, angles, n - 1), CalculateDHTransform(dh[n], angles[n]))

TranslationColumn(T) == << T[1][4], T[2][4], T[3][4] >>

RotationBlock(T) ==
    << << T[1][1], T[1][2], T[1][3] >>,
       << T[2][1], T[2][2], T[2][3] >>,
       << T[3][1], T[3][2], T[3][3] >> >>

\* C12: with as many angles as joints (at least one joint),
\* calculateForwardKinematics returns the translation column and the rotation
\* block of T1 . T2 . ... . Tn, the transforms taken in joint order.
C12_OrderedProduct ==
    (Returned("calculateForwardKinematics")
        /\ Len(arg) = Len(config.dhParameters) /\ Len(arg) >= 1)
    => /\ ret.kind = "pose"
       /\ ret.position
            = TranslationColumn(OrderedProduct(config.dhParameters, arg, Len(arg)))
       /\ ret.orientation
            = RotationBlock(OrderedProduct(config.dhParameters, arg, Len(arg)))

\* a chain whose transforms do not commute, at non-zero angles
C12_Witness ==
    /\ Returned("calculateForwardKinematics")
    /\ config = SimpleArm /\ arg = << Pi \div 4, Pi \div 4, Pi \div 4 >>
    /\ ret.kind = "pose"
    /\ ret.position # << 7000, 0, 1000 >>

AllAtZero(dh, angles) == \A i \in DOMAIN dh : dh[i].theta + angles[i] = 0

NoOffsetAfterFirst(dh) == \A i \in DOMAIN dh : i > 1 => dh[i].d = 0

\* C13: when theta + angle is 0 at every joint, the x of the position is the
\* sum of the link lengths; if also d = 0 after the first joint, the position
\* is (sum of a, 0, d1), whatever the alphas.  Scenario A gives (0.7, 0, 0.1).
C13_StretchedArm ==
    (Returned("calculateForwardKinematics")
        /\ Len(arg) = Len(config.dhParameters) /\ Len(arg) >= 1
        /\ AllAtZero(config.dhParameters, arg))
    => /\ ret.kind = "pose"
       /\ ret.position[1] = TotalLinkLength(config)
       /\ NoOffsetAfterFirst(config.dhParameters)
          => ret.position = << TotalLinkLength(config), 0, config.dhParameters[1].d >>
       /\ (config = SimpleArm) => ret.position = << 7000, 0, 1000 >>

\* scenario A
C13_Witness ==
    /\ Returned("calculateForwardKinematics")
    /\ config = SimpleArm /\ arg = << 0, 0, 0 >>
    /\ ret.kind = "pose" /\ ret.position = << 7000, 0, 1000 >>

\* the matrix of the claim, of the angle th, the twist al and the lengths a, d
StandardDH(th, al, a, d) ==
    << << Cos(th), -Mul(Sin(th), Cos(al)), Mul(Sin(th), Sin(al)), Mul(a, Cos(th)) >>,
       << Sin(th), Mul(Cos(th), Cos(al)), -Mul(Cos(th), Sin(al)), Mul(a, Sin(th)) >>,
       << 0, Sin(al), Cos(al), d >>,
       << 0, 0, 0, Scale >> >>

\* C14: calculateDHTransform(params, q) is the standard DH matrix of
\* theta = params.theta + q, alpha, a and d; it always returns a matrix, and
\* the same one as calculateDHTransform(params with theta + q for theta, 0).
C14_DHMatrix ==
    Returned("calculateDHTransform")
    => /\ ret.kind = "matrix"
       /\ ret.value = StandardDH(arg[1].theta + arg[2], arg[1].alpha, arg[1].a, arg[1].d)
       /\ ret.value
            = CalculateDHTransform([arg[1] EXCEPT !.theta = arg[1].theta + arg[2]], 0)

\* a joint with a zero position, a twist, a length and an offset, all non-zero
C14_Witness ==
    /\ Returned("calculateDHTransform")
    /\ arg[1] = DH(-(Pi \div 4), 500, 2000, HalfPi) /\ arg[2] = HalfPi
    /\ ret.kind = "matrix"
    /\ ret.value[1][1] > 0 /\ ret.value[2][1] > 0 /\ ret.value[3][4] = 500

(***************************************************************************)
(* calculateInverseKinematics as a function of the configuration and the   *)
(* target: the two loops run from fresh locals                             *)
(***************************************************************************)
\* lines 189-227: one iteration's effect on bestSolution
AfterElbowDown(best, c) == IF c.skip THEN best ELSE UpdateBest(best, c)

\* lines 259-284: one iteration's effect on elbowUpSolution
AfterElbowUp(best, c) == IF c.skip THEN best ELSE UpdateElbowUp(best, c)

\* the loop variable and the tracked candidate of a loop
SweepState(th1, best) == [theta1 |-> th1, best |-> best]

\* the first loop (line 177), and the second (line 247) with its fixed elbow angle
ElbowDown == [up |-> FALSE, invertedTheta3 |-> 0]

ElbowUp(invertedTheta3) == [up |-> TRUE, invertedTheta3 |-> invertedTheta3]

\* one iteration of a loop: the body, then theta1 += stepSize
Iteration(cfg, nj, target, branch, st) ==
    SweepState(st.theta1 + StepSize,
               IF branch.up
               THEN AfterElbowUp(st.best,
                                 ElbowUpCandidate(cfg, nj, target, st.theta1,
                                                  branch.invertedTheta3))
               ELSE AfterElbowDown(st.best,
                                   ElbowDownCandidate(cfg, nj, target, st.theta1)))

\* the iterations of a loop are evaluated in blocks of this many
BlockSize == 19

\* at most n iterations of a loop, as long as theta1 < 2 * Math.PI
RECURSIVE Iterations(_, _, _, _, _, _)
Iterations(cfg, nj, target, branch, st, n) ==
    IF n = 0 \/ ~(st.theta1 < TwoPi) THEN st
    ELSE Iterations(cfg, nj, target, branch,
                    Iteration(cfg, nj, target, branch, st), n - 1)

\* for (let theta1 = ...; theta1 < 2 * Math.PI; theta1 += stepSize)
RECURSIVE Sweep(_, _, _, _, _)
Sweep(cfg, nj, target, branch, st) ==
    IF ~(st.theta1 < TwoPi) THEN st
    ELSE Sweep(cfg, nj, target, branch,
               Iterations(cfg, nj, target, branch, st, BlockSize))

\* lines 230-292
AfterFirstSweep(cfg, nj, target, best) ==
    IF best.isNull THEN NoSolution
    ELSE Found(WithElbowUp(<< best.solution >>,
                           Sweep(cfg, nj, target, ElbowUp(InvertedTheta3(best)),
                                 SweepState(0, Null)).best))

\* lines 138-293
SolveInverseKinematics(cfg, nj, target) ==
    IF ~Supported(nj) THEN NoSolution
    ELSE IF Unreachable(cfg, target) THEN NoSolution
    ELSE AfterFirstSweep(cfg, nj, target,
                         Sweep(cfg, nj, target, ElbowDown, SweepState(0, Null)).best)

\* what a method returns, from the configuration and the argument alone
ResultOf(cfg, method, a) ==
    CASE method = "calculateForwardKinematics"
           -> CalculateForwardKinematics(cfg, Len(cfg.dhParameters), a)
      [] method = "calculateInverseKinematics"
           -> SolveInverseKinematics(cfg, Len(cfg.dhParameters), a)
      [] method = "isReachable"
           -> [kind |-> "boolean",
               value |-> ReachableFrom(SolveInverseKinematics(cfg, Len(cfg.dhParameters), a))]
      [] method = "getWorkspaceRadius"
           -> [kind |-> "number", value |-> GetWorkspaceRadius(cfg)]
      [] method = "getNumJoints"
           -> [kind |-> "number", value |-> Len(cfg.dhParameters)]
      [] method = "calculateDHTransform"
           -> [kind |-> "matrix", value |-> CalculateDHTransform(a[1], a[2])]
      [] method = "toJSON"
           -> [kind |-> "json", value |-> Stringify(cfg)]

Methods == { "calculateForwardKinematics", "calculateInverseKinematics", "isReachable",
             "getWorkspaceRadius", "getNumJoints", "calculateDHTransform", "toJSON" }

\* C15: whatever was called before, a call returns what the configuration
\* and its argument alone determine, so equal calls return equal results.
C15_Deterministic ==
    (pc = "idle" /\ op \in Methods) => ret = ResultOf(config, op, arg)

\* isReachable on a target that calculateInverseKinematics was given before:
\* both ran the whole first sweep and found nothing
C15_Witness ==
    /\ Returned("isReachable")
    /\ observed # NoResult /\ observed.target = arg /\ ~observed.valid
    /\ iterations > 0
    /\ ret = [kind |-> "boolean", value |-> FALSE]

\* C16: no method, returning or throwing, changes the configuration or the
\* cached joint count, which stays the number of DH entries.
C16_ConfigNeverModified ==
    /\ [](numJoints = Len(config.dhParameters))
    /\ [][config' = config /\ numJoints' = numJoints]_vars

\* after a solver call and a forward-kinematics call that threw
C16_Witness ==
    /\ Returned("calculateForwardKinematics") /\ ret.kind = "error"
    /\ ikResult.kind = "ik" /\ ikResult.valid
    /\ numJoints = Len(config.dhParameters) /\ config = TestRobot

\* C17 (as claimed): the configuration of every instance has as many joint
\* limits and joint types as DH entries.
C17_EqualLengths ==
    /\ Len(config.dhParameters) = Len(config.jointLimits)
    /\ Len(config.jointLimits) = Len(config.jointTypes)

\* the configuration with other joint limits and other base and tool offsets
WithOtherLimitsAndOffsets(cfg) ==
    [cfg EXCEPT
        !.jointLimits = [i \in DOMAIN cfg.jointLimits |-> [min |-> 0, max |-> 0]],
        !.baseOffset = [x |-> Scale, y |-> -Scale, z |-> Scale],
        !.toolOffset = [x |-> 0, y |-> Scale, z |-> Scale]]

\* C18: joint limits and base/tool offsets influence no result: the same
\* call on the configuration with other limits and offsets returns the same.
C18_LimitsAndOffsetsUnused ==
    (pc = "idle"
        /\ op \in { "calculateForwardKinematics", "calculateInverseKinematics",
                    "isReachable", "getWorkspaceRadius" })
    => ret = ResultOf(WithOtherLimitsAndOffsets(config), op, arg)

OutsideLimits(sol, limits) ==
    \E k \in DOMAIN sol : sol[k] # NaN /\ (sol[k] < limits[k].min \/ sol[k] > limits[k].max)

\* a solution returned with an angle outside the stored limits
C18_Witness ==
    /\ Returned("calculateInverseKinematics")
    /\ ret.kind = "ik" /\ ret.valid
    /\ OutsideLimits(ret.solutions[1], config.jointLimits)

\* the base angles a loop visits are k * stepSize for these k
SampleIndices == { k \in 0..(TwoPi \div StepSize) : k * StepSize < TwoPi }

\* the candidates of the first loop, by sample index
ElbowDownCandidates(cfg, nj, target) ==
    [k \in SampleIndices |-> ElbowDownCandidate(cfg, nj, target, k * StepSize)]

\* v <= w as numbers: false when either is NaN
AtMost(v, w) == v # NaN /\ w # NaN /\ v <= w

\* the candidate c[k] survived, equals best, has the least error of all
\* survivors, and is the first of those with that error
IsFirstMinimum(c, k, best) ==
    /\ ~c[k].skip
    /\ c[k].solution = best.solution /\ c[k].error = best.error
    /\ \A j \in DOMAIN c :
          ~c[j].skip => /\ AtMost(c[k].error, c[j].error)
                        /\ c[j].error = c[k].error => k <= j

HasFirstMinimum(c, best) == \E k \in DOMAIN c : IsFirstMinimum(c, k, best)

\* C19 (as claimed): the elbow-down solution returned is the surviving
\* candidate of the first sweep with the least verification error, the one
\* of smallest theta1 among those with that error.
C19_LeastErrorFirstFound ==
    (Returned("calculateInverseKinematics") /\ ret.kind = "ik" /\ ret.valid)
    => /\ ret.solutions[1] = bestSolution.solution
       /\ HasFirstMinimum(ElbowDownCandidates(config, numJoints, arg), bestSolution)

\* the three tests of the first loop at the base angle th1, for the
\* shoulder-to-target vector v
PassesSkips(cfg, v) ==
    /\ ~(v.length > cfg.dhParameters[2].a + cfg.dhParameters[3].a)
    /\ ~AbsGtOne(CosTheta3(cfg.dhParameters[2].a, cfg.dhParameters[3].a, v.length))
    /\ ~AbsGtOne(CosTheta2(cfg.dhParameters[2].a, cfg.dhParameters[3].a, v.length))

SomeSampleSurvives(cfg, target) ==
    \E k \in SampleIndices : PassesSkips(cfg, ShoulderToTarget(cfg, target, k * StepSize))

\* C20: on a 3-joint configuration and a target past the fast rejection the
\* result is valid exactly when some sampled theta1 passes the three skips of
\* the first sweep, whatever its position error; when none does the result
\* is the empty invalid one and the second sweep is not run.
C20_ValidIffSurvivor ==
    (Returned("calculateInverseKinematics")
        /\ Len(config.dhParameters) = 3 /\ ~Unreachable(config, arg))
    => /\ ret.kind = "ik"
       /\ ret.valid <=> SomeSampleSurvives(config, arg)
       /\ ~ret.valid => /\ ret = Empty
                        /\ elbowUpSolution.isNull
                        /\ iterations = Cardinality(SampleIndices)
                        /\ fkCalls = 0

\* a valid result whose elbow-down solution is more than the tolerance away
C20_Witness ==
    /\ Returned("calculateInverseKinematics")
    /\ config = TestRobot /\ arg = << 5000, 2000, 3000 >>
    /\ ret.kind = "ik" /\ ret.valid
    /\ bestSolution.error > Tolerance

\* the candidates of the second loop, by sample index, for the elbow angle
\* the loop keeps fixed
ElbowUpCandidates(cfg, nj, target, invertedTheta3) ==
    [k \in SampleIndices |-> ElbowUpCandidate(cfg, nj, target, k * StepSize, invertedTheta3)]

\* some surviving candidate has an error strictly below the tolerance, which
\* is to say the least error over the survivors is below it
LeastWithinTolerance(c) ==
    \E k \in DOMAIN c : ~c[k].skip /\ Less(c[k].error, Tolerance)

ElbowUpIncluded(c, best, elbowUp, result) ==
    /\ Len(result.solutions) = 2 <=> LeastWithinTolerance(c)
    /\ Len(result.solutions) = 2
          => /\ result.solutions[2] = elbowUp.solution
             /\ HasFirstMinimum(c, elbowUp)
    /\ ~LeastWithinTolerance(c)
          => /\ result = IKResult(<< best.solution >>, TRUE)
             /\ elbowUp.isNull

\* C21: a valid result holds an elbow-up solution exactly when the least
\* verification error over the survivors of the second sweep is strictly
\* below 0.1; the solution is then that least-error candidate, the first
\* found on ties; otherwise the result is the elbow-down solution alone and
\* still valid.
C21_ElbowUpWithinTolerance ==
    (Returned("calculateInverseKinematics") /\ ret.kind = "ik" /\ ret.valid)
    => ElbowUpIncluded(
          ElbowUpCandidates(config, numJoints, arg, InvertedTheta3(bestSolution)),
          bestSolution, elbowUpSolution, ret)

\* the second sweep found a candidate within the tolerance and the result
\* holds it as its second solution
C21_Witness ==
    /\ Returned("calculateInverseKinematics")
    /\ ret.kind = "ik" /\ ret.valid /\ Len(ret.solutions) = 2
    /\ ~elbowUpSolution.isNull /\ Less(elbowUpSolution.error, Tolerance)
    /\ ret.solutions[2] = elbowUpSolution.solution

\* the first loop with the elbow angle negated, by sample index
ElbowDownNegatedAt(cfg, nj, target, th1, v) ==
    ElbowDownNegatedFrom(cfg, nj, target, th1, v,
        CosTheta3(cfg.dhParameters[2].a, cfg.dhParameters[3].a, v.length),
        CosTheta2(cfg.dhParameters[2].a, cfg.dhParameters[3].a, v.length))

ElbowDownNegatedCandidates(cfg, nj, target) ==
    [k \in SampleIndices |->
        ElbowDownNegatedAt(cfg, nj, target, k * StepSize,
                           ShoulderToTarget(cfg, target, k * StepSize))]

\* what a sweep over the candidates c leaves in elbowUp (line 282)
TrackedFrom(c, elbowUp) ==
    /\ elbowUp.isNull <=> ~LeastWithinTolerance(c)
    /\ ~elbowUp.isNull => HasFirstMinimum(c, elbowUp)

\* C22 (as claimed): the elbow-up search is the first sweep repeated with
\* theta3 negated: the same three skips, and at each sampled theta1 the
\* candidate (theta1, beta - alpha, -theta3(theta1)) with the elbow angle
\* the law of cosines yields at that theta1.
C22_FirstSweepNegated ==
    (Returned("calculateInverseKinematics") /\ ret.kind = "ik" /\ ret.valid)
    => TrackedFrom(ElbowDownNegatedCandidates(config, numJoints, arg), elbowUpSolution)

\* the two skips of the second loop (lines 260 and 266)
PassesElbowUpSkips(cfg, v) ==
    /\ ~(v.length > cfg.dhParameters[2].a + cfg.dhParameters[3].a)
    /\ ~AbsGtOne(CosTheta2(cfg.dhParameters[2].a, cfg.dhParameters[3].a, v.length))

\* the candidate of the second loop at th1 (lines 269-274)
ElbowUpSolutionAt(cfg, th1, v, invertedTheta3) ==
    << th1,
       ShoulderAngle(v, CosTheta2(cfg.dhParameters[2].a, cfg.dhParameters[3].a, v.length)),
       invertedTheta3 >>

\* C22 (amended): the elbow-up search sweeps the same base angles with one
\* elbow angle, the negated theta3 of the chosen elbow-down solution: a
\* tracked candidate is (theta1, beta - alpha, -theta3 of solutions[0]) at a
\* sampled theta1 passing the two skips of the second loop, which has no
\* range check for theta3; every sample passing them is verified.
C22_FixedInvertedElbow ==
    /\ (op \in IKMethods /\ ~elbowUpSolution.isNull)
       => /\ ~bestSolution.isNull
          /\ \E k \in SampleIndices :
                /\ PassesElbowUpSkips(config, ShoulderToTarget(config, arg, k * StepSize))
                /\ elbowUpSolution.solution =
                      ElbowUpSolutionAt(config, k * StepSize,
                                        ShoulderToTarget(config, arg, k * StepSize),
                                        InvertedTheta3(bestSolution))
    /\ (Returned("calculateInverseKinematics") /\ ret.kind = "ik" /\ ret.valid)
       => fkCalls =
            Cardinality({ k \in SampleIndices :
                PassesSkips(config, ShoulderToTarget(config, arg, k * StepSize)) })
            + Cardinality({ k \in SampleIndices :
                PassesElbowUpSkips(config, ShoulderToTarget(config, arg, k * StepSize)) })

\* an elbow-up solution returned whose elbow angle is not the negated angle
\* of the law of cosines at its own base angle
C22_Witness ==
    /\ Returned("calculateInverseKinematics")
    /\ ret.kind = "ik" /\ ret.valid /\ Len(ret.solutions) = 2
    /\ ret.solutions[2][3] = InvertedTheta3(bestSolution)
    /\ ret.solutions[2][3] #
          NNeg(Acos(CosTheta3(config.dhParameters[2].a, config.dhParameters[3].a,
                              ShoulderToTarget(config, arg, ret.solutions[2][1]).length)))

\* C23 (as claimed): each sweep visits theta1 = k * (pi/180) for k = 0..359
\* and no other angle, so a sweep has 360 iterations and a call performs at
\* most 2 * 360 forward-kinematics verifications.
C23_SweepsOf360 ==
    /\ (pc \in { "elbowDown", "elbowUp" } /\ theta1 < TwoPi)
       => \E k \in 0..359 : theta1 = k * StepSize
    /\ op \in IKMethods => /\ iterations <= 2 * 360
                           /\ fkCalls <= 2 * 360

\* C24: when two solutions are returned, the third angle of the second is
\* exactly the negation of the third angle of the first, and the first has
\* theta1 in [0, 2 pi) and theta3 in [0, pi].
C24_NegatedElbow ==
    (Returned("calculateInverseKinematics") /\ ret.kind = "ik" /\ Len(ret.solutions) = 2)
    => /\ ret.solutions[1][3] # NaN
       /\ ret.solutions[2][3] = -ret.solutions[1][3]
       /\ 0 <= ret.solutions[1][1] /\ ret.solutions[1][1] < TwoPi
       /\ 0 <= ret.solutions[1][3] /\ ret.solutions[1][3] <= Pi

\* two solutions that differ in the first and in the second angle as well
C24_Witness ==
    /\ Returned("calculateInverseKinematics")
    /\ ret.kind = "ik" /\ Len(ret.solutions) = 2
    /\ ret.solutions[1][3] > 0
    /\ ret.solutions[2][1] # ret.solutions[1][1]
    /\ ret.solutions[2][2] # ret.solutions[1][2]

\* C25: calculateInverseKinematics and isReachable never end in an error: a
\* target without solution is reported by the empty invalid result (FALSE
\* from isReachable); forward kinematics is called from the solver only on
\* a 3-joint configuration and with three angles, so its joint-count error
\* does not arise.
C25_SolverNeverThrows ==
    op \in IKMethods
    => /\ ret.kind # "error" /\ ikResult.kind # "error"
       /\ pc = "idle"
          => /\ ikResult.kind = "ik"
             /\ ~ikResult.valid => ikResult = Empty
             /\ ret = IF op = "isReachable"
                      THEN [kind |-> "boolean", value |-> ikResult.valid]
                      ELSE ikResult
       /\ fkCalls > 0
          => /\ numJoints = 3 /\ Len(config.dhParameters) = 3
             /\ ~bestSolution.isNull /\ Len(bestSolution.solution) = numJoints
             /\ ~elbowUpSolution.isNull => Len(elbowUpSolution.solution) = numJoints

\* isReachable returned after a search that called forward kinematics in
\* both loops
C25_Witness ==
    /\ Returned("isReachable")
    /\ ret.kind = "boolean"
    /\ numJoints = 3
    /\ fkCalls > Cardinality(SampleIndices)

\* C26 (as claimed): calculateForwardKinematics fails exactly when the number
\* of joint angles differs from the number of joints; with as many angles as
\* joints it returns a pose, on a configuration without joints too.
C26_FailsOnlyOnCount ==
    Returned("calculateForwardKinematics")
    => /\ ret.kind \in { "pose", "error" }
       /\ ret.kind = "error" <=> Len(arg) # Len(config.dhParameters)

\* a loadRobot call that ended in the error of loadRobotConfig
LoadFailed ==
    /\ BagCardinality(loading') < BagCardinality(loading)
    /\ raised'.kind = "error" /\ raised'.message = "Robot configuration not found"

\* C27: in the visualizer, after any selections, load completions, slider
\* inputs and number-field changes, jointAngles has as many entries as the
\* loaded robot has joints, so the forward kinematics of updateRobotModel
\* never raises the joint-count error; a load that fails leaves robot and
\* jointAngles as they were.
C27_AnglesMatchJoints ==
    /\ [](robot # NoRobot
            => /\ Len(jointAngles) = robot.numJoints
               /\ robot.numJoints = Len(robot.config.dhParameters)
               /\ controls <= Len(jointAngles))
    /\ [](robot = NoRobot => jointAngles = << >> /\ controls = 0 /\ shown = NoResult)
    /\ [](raised.kind = "error" => raised.message = "Robot configuration not found")
    /\ [][LoadFailed => robot' = robot /\ jointAngles' = jointAngles]_vars

\* the 2-joint robot loaded, its second joint moved and shown, then a load
\* of an unknown robot failed while another load was waiting
C27_Witness ==
    /\ robot # NoRobot /\ robot.numJoints = 2
    /\ Len(jointAngles) = 2 /\ jointAngles[2] = HalfPi
    /\ shown.kind = "position"
    /\ raised.kind = "error"
    /\ BagCardinality(loading) = 1

=============================================================================
